---- MODULE Spec2Model ----
(***************************************************************************)
(* State-machine model of the notarIA front-end.                           *)
(*                                                                         *)
(*   - ChatService: the Chrome AI session lifecycle (create / reuse /      *)
(*     refresh by clone / destroy / warm-up), driven either by arbitrary   *)
(*     callers of the service (SpecService) or by ChatComponent (SpecChat).*)
(*   - Router: the route table, authGuard and publicGuard (SpecRouter).    *)
(*                                                                         *)
(* JavaScript runs each callback to completion, so one action is one       *)
(* synchronous stretch of code: from a call or a settled browser promise   *)
(* up to the next await of a browser promise (LanguageModel.create,        *)
(* session.clone, session.prompt, LanguageModel.availability, an HTTP      *)
(* response).  Awaits of promises that are already settled only take       *)
(* micro-task hops and are folded into the step that settles them.         *)
(***************************************************************************)
EXTENDS Integers, Sequences, FiniteSets, TLC

\* ------------------------------------------------------------------ bounds
MaxSessions == 3      \* sessions the browser hands out (create + clone)
MaxCallers == 2       \* calls into ChatService that can be in flight at once
MaxComponents == 1    \* ChatComponent instances over time
MaxStepIndex == 5     \* activeStepIndex the wizard is followed up to
MaxRows == 2          \* party groups, and term groups, in the wizard's form arrays
MaxRequests == 1      \* logins under way (unanswered or waiting for the timer); logouts unanswered

\* ------------------------------------------------------- program constants
RefreshPercent == 90  \* usagePercent >= 90
Temperature10 == 8    \* temperature: 0.8, in tenths
TopK == 3             \* topK: 3
InputQuota == 10      \* session.inputQuota, in tokens
InitialUsage == 5     \* session.inputUsage of a session that only holds the system prompt

PromptCosts == {4}    \* tokens one prompt adds to inputUsage

Sessions == 1..MaxSessions
\* one slot per call in flight: a ChatComponent has at most one warm-up and
\* one message in flight; other callers of the service share MaxCallers slots
WarmSlot(c) == 2 * c - 1
MsgSlot(c) == 2 * c
TaskIds == 1..(IF MaxCallers > 2 * MaxComponents THEN MaxCallers ELSE 2 * MaxComponents)
Components == 1..MaxComponents
NoSession == 0        \* this.currentSession === undefined

VARIABLES
  lmDefined,       \* typeof LanguageModel !== 'undefined'
  currentSession,  \* ChatService.currentSession: NoSession or a session
  nextId,          \* number of sessions the browser has handed out
  usage,           \* session -> inputUsage while it is live, 0 before and after
  destroyed,       \* sessions on which destroy() has been called
  createOpts,      \* options of the most recent LanguageModel.create call
  tasks,           \* task id -> the warmupSession / getChromeAiResponse call in flight
  deletePending,   \* a DELETE /chat/clear request has not been answered yet
  stale,           \* live sessions that hold conversation from before the last clearChat
  ev,              \* the operation that produced this state and its outcome
  comps,           \* ChatComponent instance -> its lifecycle and signals
  authCheck,       \* "pending" until the app initializer's checkAuthStatus settles
  isAuthenticated, \* AuthService.isAuthenticated()
  currentUser,     \* AuthService.currentUser(): "null" or "user"
  location,        \* the URL whose route is activated, <<>> before the first navigation
  navReq,          \* the navigation the router has been asked for, <<>> when none
  loginC,          \* the LoginComponent on screen: its returnUrl and isLoading
  loginPosts,      \* POST /auth/login requests not answered yet, with the component that sent them
  loginTimers,     \* returnUrls of the pending setTimeout callbacks of onSubmit
  logoutPosts,     \* number of POST /auth/logout requests not answered yet
  wizard           \* CreateDocumentComponent: activeStepIndex and its forms

chatVars == <<lmDefined, currentSession, nextId, usage, destroyed, createOpts,
              tasks, deletePending, stale>>
authVars == <<authCheck, isAuthenticated, currentUser>>
routerVars == <<location, navReq>>
loginVars == <<loginC, loginPosts, loginTimers, logoutPosts>>
pageVars == <<loginVars, wizard>>

vars == <<chatVars, ev, comps, authVars, routerVars, pageVars>>

\* ---------------------------------------------------------------- helpers
Min(a, b) == IF a < b THEN a ELSE b

\* LanguageModel.create({temperature: 0.8, topK: 3, initialPrompts: [system ...]})
CreateOptions == [temperature10 |-> Temperature10, topK |-> TopK, role |-> "system",
                  content |-> "asistente legal notarial"]

NoOptions == [temperature10 |-> 0, topK |-> 0, role |-> "none", content |-> "none"]

IdleTask == [pc |-> "idle", kind |-> "none", owner |-> 0, sess |-> NoSession]

Created(s) == s \in 1..nextId
Destroyed(s) == s \in destroyed
Live(s) == Created(s) /\ s \notin destroyed
LiveSessions == {s \in Sessions : Live(s)}

\* usagePercent = (inputUsage / inputQuota) * 100
\* The double computation and u * 100 >= 90 * q agree on every integer pair.
NeedsRefresh_gt(u, q) == u * 100 > RefreshPercent * q
NeedsRefresh(u, q) == u * 100 >= RefreshPercent * q

\* op: the operation; result: how the call it belongs to stands for its caller;
\* destroys: the number of destroy() calls the step made; tick: flips when the
\* same event repeats, so that a repeated call that changes nothing is still a
\* step; status: the HTTP status of the answer the step handled, 0 otherwise
Event(op, result, destroys) ==
  [op |-> op, result |-> result, destroys |-> destroys, status |-> 0,
   tick |-> IF ev.op = op /\ ev.result = result /\ ev.destroys = destroys /\ ev.status = 0
              THEN 1 - ev.tick ELSE 0]

\* the event of a step that handled the answer to an AuthService request
HttpEvent(op, result, status) ==
  [op |-> op, result |-> result, destroys |-> 0, status |-> status,
   tick |-> IF ev.op = op /\ ev.result = result /\ ev.status = status
              THEN 1 - ev.tick ELSE 0]

\* ---------------------------------------------------------- ChatComponent
NoComponent == [life |-> "none", init |-> "none", chromeAiAvailable |-> FALSE,
                isSending |-> FALSE, saving |-> FALSE, history |-> "none"]

\* the end of ngOnInit: if (this.authService.isAuthenticated()) this.loadHistory()
FinishInit(comp) ==
  [comp EXCEPT !.init = "done",
               !.history = IF isAuthenticated THEN "pending" ELSE "skipped"]

\* A destroyed component: its signals are no longer rendered and are not
\* kept; its ngOnInit may still be running (init).
Gone(comp) == [NoComponent EXCEPT !.life = "destroyed", !.init = comp.init]

\* What the caller of a settled service call does next.
\* warmupSession settled: ngOnInit goes on to the history (a rejection would
\* land in the catch block of ngOnInit and clear chromeAiAvailable).
\* getChromeAiResponse resolved: sendMessage posts both messages to the backend;
\* rejected: its catch block shows the error and clears isSending.
Resume(comp, kind, result) ==
  IF comp.life = "destroyed"
    THEN Gone(IF kind = "warm" THEN FinishInit(comp) ELSE comp)
    ELSE IF kind = "warm"
      THEN IF result = "rejected"
             THEN [FinishInit(comp) EXCEPT !.chromeAiAvailable = FALSE]
             ELSE FinishInit(comp)
      ELSE IF result = "resolved"
             THEN [comp EXCEPT !.saving = TRUE]
             ELSE [comp EXCEPT !.isSending = FALSE]

\* comps' after a step of the call in task t, owned by a component or by no one
Continuation(t) ==
  comps' = IF tasks[t].owner # 0 /\ tasks'[t].pc = "idle"
             THEN [comps EXCEPT ![tasks[t].owner] = Resume(@, tasks[t].kind, ev'.result)]
             ELSE comps

\* ------------------------------------------------------------ ChatService
\* (variant: destroy() is called but the reference is kept)
destroySession_keepReference ==
  /\ currentSession' = currentSession
  /\ usage' = usage
  /\ destroyed' = IF currentSession # NoSession
                    THEN destroyed \cup {currentSession}
                    ELSE destroyed

\* destroySession(): if (this.currentSession) { destroy(); this.currentSession = undefined }
destroySession ==
  /\ currentSession' = NoSession
  /\ usage' = IF currentSession # NoSession
               THEN [usage EXCEPT ![currentSession] = 0]
               ELSE usage
  /\ destroyed' = IF currentSession # NoSession
                    THEN destroyed \cup {currentSession}
                    ELSE destroyed

\* the sessions of stale that destroySession() leaves live
StaleAfterDestroy == stale \ {currentSession}

\* the number of destroy() calls destroySession() makes in the current state
DestroyCalls == IF currentSession # NoSession THEN 1 ELSE 0

\* ensureSession() from the usage check on, for session s with inputUsage u:
\* clone() is awaited, or s is returned and, for a message, prompted.
AfterSession(kind, owner, s, u) ==
  IF NeedsRefresh(u, InputQuota)
    THEN [pc |-> "clone", kind |-> kind, owner |-> owner, sess |-> s]
    ELSE IF kind = "msg"
      THEN [pc |-> "prompt", kind |-> kind, owner |-> owner, sess |-> s]
      ELSE IdleTask

Outcome(task) == IF task.pc = "idle" THEN "resolved" ELSE "pending"

\* (variant: a session is created on every call, held or not)
ensureSessionStart_alwaysCreate(t, kind, owner) ==
  /\ tasks' = [tasks EXCEPT ![t] =
        [pc |-> "create", kind |-> kind, owner |-> owner, sess |-> NoSession]]
  /\ createOpts' = CreateOptions
  /\ ev' = Event(kind, "pending", 0)

\* The synchronous head of ensureSession() for a call that starts in task t.
\* No session held: LanguageModel.create is called and awaited.
\* Session held: the usage check runs at once.
ensureSessionStart(t, kind, owner) ==
  IF currentSession = NoSession
    THEN /\ tasks' = [tasks EXCEPT ![t] =
                [pc |-> "create", kind |-> kind, owner |-> owner, sess |-> NoSession]]
         /\ createOpts' = CreateOptions
         /\ ev' = Event(kind, "pending", 0)
    ELSE /\ tasks' = [tasks EXCEPT ![t] =
                AfterSession(kind, owner, currentSession, usage[currentSession])]
         /\ createOpts' = createOpts
         /\ ev' = Event(kind, Outcome(tasks'[t]), 0)

\* warmupSession(): try { await this.ensureSession() } catch { /* swallowed */ }
\* With LanguageModel undefined and no session held, LanguageModel.create
\* throws a ReferenceError inside the try block.
warmupSessionStart(t, owner) ==
  /\ tasks[t].pc = "idle"
  /\ IF currentSession = NoSession /\ ~lmDefined
       THEN /\ ev' = Event("warm", "resolved", 0)
            /\ UNCHANGED <<tasks, createOpts>>
       ELSE ensureSessionStart(t, "warm", owner)
  /\ UNCHANGED <<lmDefined, currentSession, nextId, usage, destroyed,
                 deletePending, stale>>

\* getChromeAiResponse(userMessage), up to its first pending await
getChromeAiResponseStart(t, owner) ==
  /\ tasks[t].pc = "idle"
  /\ IF ~lmDefined
       THEN /\ destroySession
            /\ stale' = StaleAfterDestroy
            /\ ev' = Event("msg", "rejected", DestroyCalls)
            /\ UNCHANGED <<tasks, createOpts>>
       ELSE /\ ensureSessionStart(t, "msg", owner)
            /\ UNCHANGED <<currentSession, usage, destroyed, stale>>
  /\ UNCHANGED <<lmDefined, nextId, deletePending>>

\* (variant: the catch block of getChromeAiResponse keeps the session)
Fail_keepSession(t, op) ==
  /\ UNCHANGED <<currentSession, destroyed>>
  /\ ev' = Event(op, IF tasks[t].kind = "msg" THEN "rejected" ELSE "resolved", 0)
  /\ tasks' = [tasks EXCEPT ![t] = IdleTask]
  /\ UNCHANGED <<lmDefined, nextId, usage, createOpts, deletePending, stale>>
  /\ Continuation(t)
  /\ UNCHANGED <<authVars, routerVars, pageVars>>

\* (variant: warmupSession lets the failure through)
Fail_warmupRethrows(t, op) ==
  /\ IF tasks[t].kind = "msg"
       THEN destroySession /\ stale' = StaleAfterDestroy
       ELSE UNCHANGED <<currentSession, usage, destroyed, stale>>
  /\ ev' = Event(op, "rejected", IF tasks[t].kind = "msg" THEN DestroyCalls ELSE 0)
  /\ tasks' = [tasks EXCEPT ![t] = IdleTask]
  /\ UNCHANGED <<lmDefined, nextId, createOpts, deletePending>>
  /\ Continuation(t)
  /\ UNCHANGED <<authVars, routerVars, pageVars>>

\* A failure inside warmupSession is swallowed; inside getChromeAiResponse the
\* catch block destroys the held session and rethrows.
Fail(t, op) ==
  /\ IF tasks[t].kind = "msg"
       THEN /\ destroySession
            /\ stale' = StaleAfterDestroy
            /\ ev' = Event(op, "rejected", DestroyCalls)
       ELSE /\ UNCHANGED <<currentSession, usage, destroyed, stale>>
            /\ ev' = Event(op, "resolved", 0)
  /\ tasks' = [tasks EXCEPT ![t] = IdleTask]
  /\ UNCHANGED <<lmDefined, nextId, createOpts, deletePending>>
  /\ Continuation(t)
  /\ UNCHANGED <<authVars, routerVars, pageVars>>

\* await LanguageModel.create(...) resolves: the new session is installed
\* over whatever is held, then the usage check runs on it.
CreateResolves(t) ==
  /\ tasks[t].pc = "create"
  /\ nextId < MaxSessions
  /\ LET s == nextId + 1 IN
       /\ nextId' = s
       /\ usage' = [usage EXCEPT ![s] = InitialUsage]
       /\ currentSession' = s
       /\ tasks' = [tasks EXCEPT ![t] =
             AfterSession(tasks[t].kind, tasks[t].owner, s, InitialUsage)]
       /\ ev' = Event("createResolved", Outcome(tasks'[t]), 0)
  /\ UNCHANGED <<lmDefined, destroyed, createOpts, deletePending, stale>>
  /\ Continuation(t)
  /\ UNCHANGED <<authVars, routerVars, pageVars>>

CreateRejects(t) ==
  /\ tasks[t].pc = "create"
  /\ Fail(t, "createRejected")

\* await oldSession.clone() resolves: the clone is installed and the old
\* session destroyed.  A clone keeps the conversation (same inputUsage) or
\* only the initial prompt, depending on the browser release.  A destroyed
\* session rejects its pending calls.
CloneResolves(t, keepsContext) ==
  /\ tasks[t].pc = "clone"
  /\ nextId < MaxSessions
  /\ ~Destroyed(tasks[t].sess)
  /\ LET old == tasks[t].sess
         c == nextId + 1
     IN
       /\ nextId' = c
       /\ usage' = [usage EXCEPT ![old] = 0,
                                 ![c] = IF keepsContext THEN usage[old] ELSE InitialUsage]
       /\ currentSession' = c
       /\ destroyed' = destroyed \cup {old}
       /\ stale' = IF old \in stale /\ keepsContext
                     THEN (stale \ {old}) \cup {c}
                     ELSE stale \ {old}
       /\ tasks' = [tasks EXCEPT ![t] =
             IF tasks[t].kind = "msg"
               THEN [tasks[t] EXCEPT !.pc = "prompt", !.sess = c]
               ELSE IdleTask]
       /\ ev' = Event("cloneResolved", Outcome(tasks'[t]), 1)
  /\ UNCHANGED <<lmDefined, createOpts, deletePending>>
  /\ Continuation(t)
  /\ UNCHANGED <<authVars, routerVars, pageVars>>

CloneRejects(t) ==
  /\ tasks[t].pc = "clone"
  /\ Fail(t, "cloneRejected")

\* await session.prompt(userMessage) resolves: the response is returned and
\* the session is kept for the next message.
PromptResolves(t, cost) ==
  /\ tasks[t].pc = "prompt"
  /\ ~Destroyed(tasks[t].sess)
  /\ usage' = [usage EXCEPT ![tasks[t].sess] = Min(@ + cost, InputQuota)]
  /\ ev' = Event("promptResolved", "resolved", 0)
  /\ tasks' = [tasks EXCEPT ![t] = IdleTask]
  /\ UNCHANGED <<lmDefined, currentSession, nextId, destroyed, createOpts,
                 deletePending, stale>>
  /\ Continuation(t)
  /\ UNCHANGED <<authVars, routerVars, pageVars>>

PromptRejects(t) ==
  /\ tasks[t].pc = "prompt"
  /\ Fail(t, "promptRejected")

\* clearChat(sessionId): destroySession(), then DELETE /chat/clear
clearChat ==
  /\ destroySession
  /\ deletePending' = TRUE
  /\ stale' = {s \in LiveSessions \ {currentSession} : usage[s] > InitialUsage}
  /\ ev' = Event("clearChat", "pending", DestroyCalls)
  /\ UNCHANGED <<lmDefined, nextId, createOpts, tasks>>

\* --------------------------------------------- callers of the service API
\* A call takes the lowest free task slot.
FreeSlot(t) ==
  /\ t <= MaxCallers
  /\ tasks[t].pc = "idle"
  /\ \A u \in TaskIds : u < t => tasks[u].pc # "idle"

CallWarmupSession(t) ==
  /\ FreeSlot(t)
  /\ warmupSessionStart(t, 0)
  /\ UNCHANGED <<comps, authVars, routerVars, pageVars>>

CallGetChromeAiResponse(t) ==
  /\ FreeSlot(t)
  /\ getChromeAiResponseStart(t, 0)
  /\ UNCHANGED <<comps, authVars, routerVars, pageVars>>

CallDestroySession ==
  /\ destroySession
  /\ stale' = StaleAfterDestroy
  /\ ev' = Event("destroySession", "resolved", DestroyCalls)
  /\ UNCHANGED <<lmDefined, nextId, createOpts, tasks, deletePending>>
  /\ UNCHANGED <<comps, authVars, routerVars, pageVars>>

\* ----------------------------------------------------- ApiService, interceptor
\* statuses of an HTTP answer: success, unauthorized, any other failure
HttpStatuses == {200, 401, 500}

\* (variant: the request is sent without withCredentials)
ApiRequest_noCredentials(method, endpoint) ==
  [method |-> method, endpoint |-> endpoint, withCredentials |-> FALSE, headers |-> {}]

\* ApiService.get / post: this.http.<method>(baseUrl + endpoint, {withCredentials: true})
ApiRequest(method, endpoint) ==
  [method |-> method, endpoint |-> endpoint, withCredentials |-> TRUE, headers |-> {}]

\* authInterceptor, request side: next(req) is called with req as it came
authInterceptorRequest(req) == req

\* authInterceptor, catchError: on status 401 router.navigate(['/login']); the
\* error is rethrown.  The result is the navigation the router has been asked for.
authInterceptor(status, nav) ==
  IF status = 401 THEN <<[path |-> <<"login">>, query |-> <<>>]>> ELSE nav

\* ---------------------------------------------------------------- AuthService
\* (variant: appConfig without provideAppInitializer)
AppStarted_noInitializer == TRUE

\* provideAppInitializer(() => authService.checkAuthStatus()): the application,
\* and with it the router's initial navigation, starts when the promise settles
AppStarted == authCheck = "settled"

\* checkAuthStatus(): GET /auth/me; tap sets the user, catchError clears it;
\* the promise resolves either way.  It is the app initializer.  The answer
\* passes through authInterceptor first.
CheckAuthStatusSettles(status) ==
  /\ authCheck = "pending"
  /\ authCheck' = "settled"
  /\ isAuthenticated' = (status = 200)
  /\ currentUser' = IF status = 200 THEN "user" ELSE "null"
  /\ navReq' = authInterceptor(status, navReq)
  /\ ev' = HttpEvent("checkAuthStatus", "resolved", status)
  /\ UNCHANGED <<chatVars, comps, location, pageVars>>

\* (variant: logout without catchError)
logout_noCatchError(status) ==
  IF status = 200
    THEN [isAuthenticated |-> FALSE, currentUser |-> "null", emits |-> "next",
          nav |-> <<[path |-> <<"login">>, query |-> <<>>]>>]
    ELSE [isAuthenticated |-> isAuthenticated, currentUser |-> currentUser,
          emits |-> "error", nav |-> authInterceptor(status, navReq)]

\* logout(): POST /auth/logout answered.  tap (success) and catchError (failure)
\* both clear the state and navigate to ['/login']; catchError returns
\* of(void 0), so the subscriber's next runs in both cases.
logout(status) ==
  [isAuthenticated |-> FALSE, currentUser |-> "null", emits |-> "next",
   nav |-> <<[path |-> <<"login">>, query |-> <<>>]>>]

\* --------------------------------------------------------------- the guards
\* authGuard: true when authenticated, else navigate to /auth/login with
\* returnUrl = state.url and return false
authGuard_noReturnUrl(auth, url) ==
  IF auth
    THEN [allow |-> TRUE, redirect |-> <<>>]
    ELSE [allow |-> FALSE, redirect |-> <<[path |-> <<"auth", "login">>, query |-> <<>>]>>]
authGuard(auth, url) ==
  IF auth
    THEN [allow |-> TRUE, redirect |-> <<>>]
    ELSE [allow |-> FALSE,
          redirect |-> <<[path |-> <<"auth", "login">>, query |-> <<url>>]>>]

\* publicGuard: true when not authenticated, else navigate to /dashboard and
\* return false
publicGuard_toLogin(auth) ==
  IF ~auth
    THEN [allow |-> TRUE, redirect |-> <<>>]
    ELSE [allow |-> FALSE, redirect |-> <<[path |-> <<"auth", "login">>, query |-> <<>>]>>]
publicGuard(auth) ==
  IF ~auth
    THEN [allow |-> TRUE, redirect |-> <<>>]
    ELSE [allow |-> FALSE, redirect |-> <<[path |-> <<"dashboard">>, query |-> <<>>]>>]

\* ------------------------------------------------------------------ Router
\* A URL is a path (its segments) and a query: <<>> or <<the returnUrl>>.
Url(path) == [path |-> path, query |-> <<>>]

Route(path, component, guard) ==
  [path |-> path, component |-> component, guard |-> guard, redirectTo |-> <<>>]

\* app.routes.ts, in order
Routes == <<
  Route(<<>>, "LandingComponent", "none"),
  Route(<<"auth", "login">>, "LoginComponent", "publicGuard"),
  Route(<<"auth", "register">>, "RegisterComponent", "publicGuard"),
  Route(<<"auth", "forgot-password">>, "ForgotPasswordComponent", "publicGuard"),
  Route(<<"auth", "reset-password", ":token">>, "ResetPasswordComponent", "publicGuard"),
  Route(<<"dashboard">>, "DashboardComponent", "authGuard"),
  Route(<<"documents">>, "DocumentsListComponent", "authGuard"),
  Route(<<"documents", "create">>, "CreateDocumentComponent", "authGuard"),
  Route(<<"documents", "edit", ":id">>, "CreateDocumentComponent", "authGuard"),
  Route(<<"documents", ":id">>, "ViewDocumentComponent", "authGuard"),
  Route(<<"services">>, "ServicesComponent", "authGuard"),
  Route(<<"chat">>, "ChatComponent", "authGuard"),
  Route(<<"profile">>, "ProfileComponent", "authGuard"),
  [path |-> <<"**">>, component |-> "", guard |-> "none", redirectTo |-> <<"">>] >>

ParamSegments == {":token", ":id"}

\* a route pattern matches a path segment by segment; '**' matches anything
Matches(pattern, path) ==
  \/ pattern = <<"**">>
  \/ /\ Len(pattern) = Len(path)
     /\ \A i \in 1..Len(pattern) : pattern[i] \in ParamSegments \/ pattern[i] = path[i]

\* the first route of the table that matches
MatchRoute(path) ==
  LET i == CHOOSE k \in 1..Len(Routes) :
             /\ Matches(Routes[k].path, path)
             /\ \A j \in 1..(k - 1) : ~Matches(Routes[j].path, path)
  IN Routes[i]

\* the URL and route a navigation ends on, after redirectTo: '' -> the root
Recognize(url) ==
  LET r == MatchRoute(url.path) IN
    IF r.redirectTo = <<"">>
      THEN [url |-> [url EXCEPT !.path = <<>>], route |-> MatchRoute(<<>>)]
      ELSE [url |-> url, route |-> r]

\* canActivate of the recognized route
RunGuard(route, auth, url) ==
  IF route.guard = "authGuard" THEN authGuard(auth, url)
  ELSE IF route.guard = "publicGuard" THEN publicGuard(auth)
  ELSE [allow |-> TRUE, redirect |-> <<>>]

\* URLs a user opens or follows a link to
UserUrls == {Url(<<>>), Url(<<"auth", "login">>), Url(<<"auth", "register">>),
             Url(<<"auth", "forgot-password">>), Url(<<"auth", "reset-password", "tok">>),
             Url(<<"dashboard">>), Url(<<"documents">>), Url(<<"documents", "create">>),
             Url(<<"documents", "edit", "42">>), Url(<<"documents", "42">>),
             Url(<<"services">>), Url(<<"chat">>), Url(<<"profile">>), Url(<<"login">>)}

\* the component of the activated route
ActiveComponent ==
  IF location = <<>> THEN "none" ELSE MatchRoute(location[1].path).component

\* ----------------------------------------------------------- LoginComponent
\* no LoginComponent on screen
NoLogin == [returnUrl |-> <<>>, isLoading |-> FALSE]

\* ngOnInit(): returnUrl = this.route.snapshot.queryParams['returnUrl'] || '/dashboard'
LoginNgOnInit(url) ==
  [returnUrl |-> IF url.query # <<>> THEN url.query
                 ELSE <<[path |-> <<"dashboard">>, query |-> <<>>]>>,
   isLoading |-> FALSE]

\* The router activates a route.  A route whose configuration is the one
\* already active keeps its component instance (ngOnInit does not run again);
\* otherwise the old component is destroyed and the new one created.
ActivateLogin(component, url) ==
  IF component = "LoginComponent"
    THEN IF ActiveComponent = "LoginComponent" THEN loginC ELSE LoginNgOnInit(url)
    ELSE NoLogin

\* requests of a destroyed LoginComponent stay subscribed, without a screen
Orphaned(posts) == [k \in 1..Len(posts) |-> [posts[k] EXCEPT !.own = FALSE]]

\* the URLs followed around login and logout: the landing page, the login
\* page, two protected pages
AuthUrls == {Url(<<>>), Url(<<"auth", "login">>), Url(<<"dashboard">>), Url(<<"documents", "42">>)}

\* the user opens a URL or follows a link: a navigation is requested
Navigate(url) ==
  /\ AppStarted
  /\ navReq' = <<url>>
  /\ location' = location
  /\ ev' = Event("navigate", "pending", 0)
  /\ UNCHANGED <<chatVars, comps, authVars, pageVars>>

\* The router runs the requested navigation: recognize, run the guard,
\* activate or drop it.  A guard that denies has already asked for its
\* redirect navigation.
ProcessNavigation ==
  /\ AppStarted
  /\ navReq # <<>>
  /\ LET rec == Recognize(navReq[1])
         g == RunGuard(rec.route, isAuthenticated, rec.url)
         keeps == rec.route.component = "LoginComponent" /\ ActiveComponent = "LoginComponent"
     IN
       /\ location' = IF g.allow THEN <<rec.url>> ELSE location
       /\ navReq' = g.redirect
       /\ loginC' = IF g.allow THEN ActivateLogin(rec.route.component, rec.url) ELSE loginC
       /\ loginPosts' = IF g.allow /\ ~keeps THEN Orphaned(loginPosts) ELSE loginPosts
       /\ ev' = Event("navigation", IF g.allow THEN "activated" ELSE "denied", 0)
  /\ UNCHANGED <<chatVars, comps, authVars, wizard>>
  /\ UNCHANGED <<loginTimers, logoutPosts>>

\* onSubmit(): an invalid form returns after markAllAsTouched(); a valid one
\* sets isLoading and posts the credentials through AuthService.login
LoginSubmit(valid) ==
  /\ ActiveComponent = "LoginComponent"
  /\ IF valid
       THEN /\ Len(loginPosts) + Cardinality(loginTimers) < MaxRequests
            /\ loginC' = [loginC EXCEPT !.isLoading = TRUE]
            /\ loginPosts' = Append(loginPosts,
                 [req |-> authInterceptorRequest(ApiRequest("POST", "/auth/login")),
                  returnUrl |-> loginC.returnUrl, own |-> TRUE])
            /\ ev' = Event("onSubmit", "pending", 0)
       ELSE /\ ev' = Event("onSubmit", "invalid", 0)
            /\ UNCHANGED <<loginC, loginPosts>>
  /\ UNCHANGED <<chatVars, comps, authVars, routerVars, wizard>>
  /\ UNCHANGED <<loginTimers, logoutPosts>>

RemoveAt(seq, k) == [n \in 1..(Len(seq) - 1) |-> IF n < k THEN seq[n] ELSE seq[n + 1]]

\* POST /auth/login answered.  Success: tap of AuthService.login sets the
\* user, next clears isLoading and starts the one-second timer.  Failure:
\* authInterceptor, then error clears isLoading.
LoginAnswered(k, status) ==
  /\ k \in 1..Len(loginPosts)
  /\ LET post == loginPosts[k] IN
       /\ loginPosts' = RemoveAt(loginPosts, k)
       /\ loginC' = IF post.own THEN [loginC EXCEPT !.isLoading = FALSE] ELSE loginC
       /\ IF status = 200
            THEN /\ isAuthenticated' = TRUE
                 /\ currentUser' = "user"
                 /\ loginTimers' = loginTimers \cup {post.returnUrl}
                 /\ navReq' = navReq
                 /\ ev' = HttpEvent("loginAnswered", "next", status)
            ELSE /\ navReq' = authInterceptor(status, navReq)
                 /\ ev' = HttpEvent("loginAnswered", "error", status)
                 /\ UNCHANGED <<isAuthenticated, currentUser, loginTimers>>
  /\ UNCHANGED <<chatVars, comps, authCheck, location, wizard>>
  /\ UNCHANGED logoutPosts

\* setTimeout(() => this.router.navigateByUrl(this.returnUrl), 1000) fires
LoginTimerFires(r) ==
  /\ r \in loginTimers
  /\ loginTimers' = loginTimers \ {r}
  /\ navReq' = r
  /\ ev' = Event("loginTimer", "pending", 0)
  /\ UNCHANGED <<chatVars, comps, authVars, location, wizard>>
  /\ UNCHANGED <<loginC, loginPosts, logoutPosts>>

\* ---------------------------------------------------------- HeaderComponent
\* the pages that show the header: the routes behind authGuard
HeaderPages == {Routes[k].component : k \in {n \in 1..Len(Routes) : Routes[n].guard = "authGuard"}}

\* The requests of AuthService that are out, as ApiService builds them and
\* authInterceptor passes them on: GET /auth/me while the initializer is
\* pending, the unanswered POST /auth/login and POST /auth/logout.
RequestsInFlight ==
  (IF authCheck = "pending"
     THEN {authInterceptorRequest(ApiRequest("GET", "/auth/me"))} ELSE {})
  \cup {loginPosts[k].req : k \in 1..Len(loginPosts)}
  \cup (IF logoutPosts > 0
          THEN {authInterceptorRequest(ApiRequest("POST", "/auth/logout"))} ELSE {})

\* logout(): this.authService.logout().subscribe(...): POST /auth/logout is sent
Logout ==
  /\ ActiveComponent \in HeaderPages
  /\ logoutPosts < MaxRequests
  /\ logoutPosts' = logoutPosts + 1
  /\ ev' = Event("logout", "pending", 0)
  /\ UNCHANGED <<chatVars, comps, authVars, routerVars, wizard>>
  /\ UNCHANGED <<loginC, loginPosts, loginTimers>>

\* POST /auth/logout answered: AuthService.logout's pipe runs, then the
\* subscriber of HeaderComponent.logout
LogoutAnswered(status) ==
  /\ logoutPosts > 0
  /\ logoutPosts' = logoutPosts - 1
  /\ LET out == logout(status) IN
       /\ isAuthenticated' = out.isAuthenticated
       /\ currentUser' = out.currentUser
       /\ navReq' = out.nav
       /\ ev' = HttpEvent("logoutAnswered", out.emits, status)
  /\ UNCHANGED <<chatVars, comps, authCheck, location, wizard>>
  /\ UNCHANGED <<loginC, loginPosts, loginTimers>>

\* ---------------------------------------------------------- ChatComponent
\* The 'chat' route is activated (authGuard allowed it) and ngOnInit runs up
\* to await checkChromeAiAvailability(); without LanguageModel it runs through.
NgOnInit(c) ==
  /\ AppStarted
  /\ authGuard(isAuthenticated, [path |-> <<"chat">>, query |-> <<>>]).allow
  /\ comps[c].life = "none"
  /\ \A d \in Components : d < c => comps[d].life = "destroyed"
  /\ comps' = [comps EXCEPT ![c] =
       IF lmDefined
         THEN [@ EXCEPT !.life = "alive", !.init = "avail", !.chromeAiAvailable = TRUE]
         ELSE FinishInit([@ EXCEPT !.life = "alive", !.chromeAiAvailable = FALSE])]
  /\ ev' = Event("ngOnInit", "pending", 0)
  /\ UNCHANGED <<chatVars, authVars, routerVars, pageVars>>

\* LanguageModel.availability() answers 'available': warmupSession() is called
AvailabilityAvailable(c) ==
  /\ comps[c].init = "avail"
  /\ warmupSessionStart(WarmSlot(c), c)
  /\ comps' = [comps EXCEPT ![c] =
       IF @.life = "destroyed"
         THEN Gone(IF tasks'[WarmSlot(c)].pc = "idle" THEN FinishInit(@) ELSE [@ EXCEPT !.init = "warm"])
         ELSE IF tasks'[WarmSlot(c)].pc = "idle"
           THEN FinishInit([@ EXCEPT !.chromeAiAvailable = TRUE])
           ELSE [@ EXCEPT !.chromeAiAvailable = TRUE, !.init = "warm"]]
  /\ UNCHANGED <<authVars, routerVars, pageVars>>

\* LanguageModel.availability() answers anything else, or rejects (caught in
\* checkChromeAiAvailability): no warm-up, chromeAiAvailable is cleared
AvailabilityOther(c, status) ==
  /\ comps[c].init = "avail"
  /\ comps' = [comps EXCEPT ![c] =
       IF @.life = "destroyed"
         THEN Gone(FinishInit(@))
         ELSE FinishInit([@ EXCEPT !.chromeAiAvailable = FALSE])]
  /\ ev' = Event("availability", "notAvailable", 0)
  /\ UNCHANGED <<chatVars, authVars, routerVars, pageVars>>

\* canSendMessage: userInput not blank, not sending, chromeAiAvailable
canSendMessage(comp, inputBlank) ==
  ~inputBlank /\ ~comp.isSending /\ comp.chromeAiAvailable

\* sendMessage(): up to await this.chatService.getChromeAiResponse(userMessage)
SendMessage(c) ==
  /\ comps[c].life = "alive"
  /\ canSendMessage(comps[c], FALSE)
  /\ getChromeAiResponseStart(MsgSlot(c), c)
  /\ comps' = [comps EXCEPT ![c] =
       IF ev'.result = "rejected"
         THEN [@ EXCEPT !.isSending = FALSE]
         ELSE [@ EXCEPT !.isSending = TRUE]]
  /\ UNCHANGED <<authVars, routerVars, pageVars>>

\* POST /chat/message answered: next or error, both clear isSending
SaveAnswered(c, ok) ==
  /\ comps[c].saving
  /\ comps' = [comps EXCEPT ![c] = [@ EXCEPT !.saving = FALSE, !.isSending = FALSE]]
  /\ ev' = Event("saveAnswered", "answered", 0)
  /\ UNCHANGED <<chatVars, authVars, routerVars, pageVars>>

\* clearChat(), confirmed in the dialog: this.chatService.clearChat(...).subscribe
ClearChatAccepted(c) ==
  /\ comps[c].life = "alive"
  /\ clearChat
  /\ UNCHANGED <<comps, authVars, routerVars, pageVars>>

\* DELETE /chat/clear answered: next empties the list, error shows a toast;
\* further requests may still be out
DeleteAnswered(ok) ==
  /\ deletePending
  /\ deletePending' \in BOOLEAN
  /\ ev' = Event("deleteAnswered", "answered", 0)
  /\ UNCHANGED <<lmDefined, currentSession, nextId, usage, destroyed, createOpts,
                 tasks, stale>>
  /\ UNCHANGED <<comps, authVars, routerVars, pageVars>>

\* ngOnDestroy(): this.chatService.destroySession()
NgOnDestroy(c) ==
  /\ comps[c].life = "alive"
  /\ destroySession
  /\ comps' = [comps EXCEPT ![c] = Gone(@)]
  /\ stale' = StaleAfterDestroy
  /\ ev' = Event("ngOnDestroy", "resolved", DestroyCalls)
  /\ UNCHANGED <<lmDefined, nextId, createOpts, tasks, deletePending>>
  /\ UNCHANGED <<authVars, routerVars, pageVars>>

\* -------------------------------------------------- CreateDocumentComponent
\* The component after ngOnInit in create mode: step 0, empty forms with one
\* party group and one term group.  A form control is kept as its validity.
NewWizard ==
  [activeStepIndex |-> 0, documentType |-> FALSE, documentName |-> FALSE,
   parties |-> <<FALSE>>, terms |-> <<FALSE>>, isLoading |-> FALSE, saved |-> FALSE]

\* step1Form.valid: documentType required, documentName required, 3..200 characters
step1FormValid(w) == w.documentType /\ w.documentName

\* step2Form.valid: every party group of the FormArray is valid
step2FormValid(w) == \A k \in 1..Len(w.parties) : w.parties[k]

WizardStep(w, op, result) ==
  /\ wizard' = w
  /\ ev' = Event(op, result, 0)
  /\ UNCHANGED <<chatVars, comps, authVars, routerVars, loginVars>>

\* nextStep(): step 0 needs step1Form valid, step 1 needs step2Form valid;
\* otherwise activeStepIndex.set(currentStep + 1)
nextStep ==
  LET currentStep == wizard.activeStepIndex IN
    IF currentStep = 0 /\ ~step1FormValid(wizard) THEN WizardStep(wizard, "nextStep", "invalid")
    ELSE IF currentStep = 1 /\ ~step2FormValid(wizard) THEN WizardStep(wizard, "nextStep", "invalid")
    ELSE /\ currentStep < MaxStepIndex
         /\ WizardStep([wizard EXCEPT !.activeStepIndex = currentStep + 1], "nextStep", "moved")

\* previousStep(): if (currentStep > 0) activeStepIndex.set(currentStep - 1)
previousStep ==
  LET currentStep == wizard.activeStepIndex IN
    IF currentStep > 0
      THEN WizardStep([wizard EXCEPT !.activeStepIndex = currentStep - 1], "previousStep", "moved")
      ELSE WizardStep(wizard, "previousStep", "first")

\* the user edits step 1: chooses a type or not, types a name that is valid or not
EditStep1(type, name) ==
  WizardStep([wizard EXCEPT !.documentType = type, !.documentName = name], "editStep1", "edited")

\* the user edits the fields of party k / of term k
EditParty(k, valid) ==
  /\ k \in 1..Len(wizard.parties)
  /\ WizardStep([wizard EXCEPT !.parties[k] = valid], "editParty", "edited")

EditTerm(k, valid) ==
  /\ k \in 1..Len(wizard.terms)
  /\ WizardStep([wizard EXCEPT !.terms[k] = valid], "editTerm", "edited")

\* addParty(): push an empty party group
addParty ==
  /\ Len(wizard.parties) < MaxRows
  /\ WizardStep([wizard EXCEPT !.parties = Append(@, FALSE)], "addParty", "added")

\* removeParty(index): only while more than one party is left
removeParty(k) ==
  /\ k \in 1..Len(wizard.parties)
  /\ IF Len(wizard.parties) > 1
       THEN WizardStep([wizard EXCEPT !.parties = RemoveAt(@, k)], "removeParty", "removed")
       ELSE WizardStep(wizard, "removeParty", "kept")

\* addTerm(): push an empty term group
addTerm ==
  /\ Len(wizard.terms) < MaxRows
  /\ WizardStep([wizard EXCEPT !.terms = Append(@, FALSE)], "addTerm", "added")

\* removeTerm(index): if (this.termsArray.length > 0) removeAt(index)
removeTerm(k) ==
  /\ k \in 1..Len(wizard.terms)
  /\ WizardStep([wizard EXCEPT !.terms = RemoveAt(@, k)], "removeTerm", "removed")

\* saveDocument(): returns while a save is loading, else posts the document
saveDocument ==
  IF wizard.isLoading
    THEN WizardStep(wizard, "saveDocument", "loading")
    ELSE WizardStep([wizard EXCEPT !.isLoading = TRUE], "saveDocument", "pending")

\* POST /documents answered: next and error both clear isLoading; next starts
\* the timer that leads to the list
SaveDocumentAnswered(ok) ==
  /\ wizard.isLoading
  /\ WizardStep([wizard EXCEPT !.isLoading = FALSE, !.saved = (@ \/ ok)],
                "saveAnswered", IF ok THEN "next" ELSE "error")

\* ------------------------------------------------------------ specifications
Init ==
  /\ lmDefined \in BOOLEAN
  /\ currentSession = NoSession
  /\ nextId = 0
  /\ usage = [s \in Sessions |-> 0]
  /\ destroyed = {}
  /\ createOpts = NoOptions
  /\ tasks = [t \in TaskIds |-> IdleTask]
  /\ deletePending = FALSE
  /\ stale = {}
  /\ ev = [op |-> "init", result |-> "resolved", destroys |-> 0, status |-> 0, tick |-> 0]
  /\ comps = [c \in Components |-> NoComponent]
  /\ authCheck = "pending"
  /\ isAuthenticated = FALSE
  /\ currentUser = "null"
  /\ location = <<>>
  /\ navReq = <<>>
  /\ loginC = NoLogin
  /\ loginPosts = <<>>
  /\ loginTimers = {}
  /\ logoutPosts = 0
  /\ wizard = NewWizard

\* the browser settles the pending promise of a service call
BrowserSettles ==
  \/ \E t \in TaskIds : CreateResolves(t)
  \/ \E t \in TaskIds : CreateRejects(t)
  \/ \E t \in TaskIds, k \in BOOLEAN : CloneResolves(t, k)
  \/ \E t \in TaskIds : CloneRejects(t)
  \/ \E t \in TaskIds, c \in PromptCosts : PromptResolves(t, c)
  \/ \E t \in TaskIds : PromptRejects(t)

\* ChatService under arbitrary callers of its public methods
NextService ==
  \/ \E t \in TaskIds : CallWarmupSession(t)
  \/ \E t \in TaskIds : CallGetChromeAiResponse(t)
  \/ CallDestroySession
  \/ BrowserSettles

SpecService == Init /\ [][NextService]_vars

\* ChatService under ChatComponent
NextChat ==
  \/ \E st \in HttpStatuses : CheckAuthStatusSettles(st)
  \/ \E c \in Components : NgOnInit(c)
  \/ \E c \in Components : AvailabilityAvailable(c)
  \/ \E c \in Components, st \in {"downloadable", "downloading", "unavailable", "error"} :
       AvailabilityOther(c, st)
  \/ \E c \in Components : SendMessage(c)
  \/ \E c \in Components, ok \in BOOLEAN : SaveAnswered(c, ok)
  \/ \E c \in Components : ClearChatAccepted(c)
  \/ \E ok \in BOOLEAN : DeleteAnswered(ok)
  \/ \E c \in Components : NgOnDestroy(c)
  \/ BrowserSettles

SpecChat == Init /\ [][NextChat]_vars

\* routing and the guards
NextRouter ==
  \/ \E st \in HttpStatuses : CheckAuthStatusSettles(st)
  \/ \E u \in UserUrls : Navigate(u)
  \/ ProcessNavigation

SpecRouter == Init /\ [][NextRouter]_vars

\* login, logout and the interceptor on top of the router
NextAuth ==
  \/ \E st \in HttpStatuses : CheckAuthStatusSettles(st)
  \/ \E u \in AuthUrls : Navigate(u)
  \/ ProcessNavigation
  \/ \E v \in BOOLEAN : LoginSubmit(v)
  \/ \E k \in 1..MaxRequests, st \in HttpStatuses : LoginAnswered(k, st)
  \/ \E r \in loginTimers : LoginTimerFires(r)
  \/ Logout
  \/ \E st \in HttpStatuses : LogoutAnswered(st)

SpecAuth == Init /\ [][NextAuth]_vars

\* the creation wizard under its user
NextWizard ==
  \/ nextStep
  \/ previousStep
  \/ \E t \in BOOLEAN, n \in BOOLEAN : EditStep1(t, n)
  \/ \E k \in 1..MaxRows, v \in BOOLEAN : EditParty(k, v)
  \/ \E k \in 1..MaxRows, v \in BOOLEAN : EditTerm(k, v)
  \/ addParty
  \/ \E k \in 1..MaxRows : removeParty(k)
  \/ addTerm
  \/ \E k \in 1..MaxRows : removeTerm(k)
  \/ saveDocument
  \/ \E ok \in BOOLEAN : SaveDocumentAnswered(ok)

SpecWizard == Init /\ [][NextWizard]_vars

TypeOK ==
  /\ lmDefined \in BOOLEAN
  /\ currentSession \in 0..MaxSessions
  /\ nextId \in 0..MaxSessions
  /\ destroyed \subseteq 1..nextId
  /\ stale \subseteq LiveSessions
  /\ Len(loginPosts) \in 0..MaxRequests
  /\ logoutPosts \in 0..MaxRequests
  /\ wizard.activeStepIndex \in 0..MaxStepIndex
  /\ Len(wizard.parties) \in 1..MaxRows
  /\ Len(wizard.terms) \in 0..MaxRows
  /\ \A s \in Sessions : usage[s] \in 0..InputQuota

\* ------------------------------------------------------------------ claims
Started(t) == tasks[t].pc = "idle" /\ tasks'[t].pc # "idle"
CreateIssued == \E t \in TaskIds : tasks[t].pc # "create" /\ tasks'[t].pc = "create"
CloneIssued(s) == \E t \in TaskIds :
  tasks[t].pc # "clone" /\ tasks'[t].pc = "clone" /\ tasks'[t].sess = s
CallStep == ev'.op \in {"warm", "msg"}
AtNinetyPercent(s) == usage[s] * 10 >= 9 * InputQuota

\* C1: LanguageModel.create is called only while no session is held, always
\* with temperature 0.8, topK 3 and the system prompt; a warmupSession or
\* getChromeAiResponse call that starts while a session is held issues no
\* create and works on the held session.
C1_LazyCreateAndReuse ==
  [][ /\ CreateIssued =>
           /\ currentSession = NoSession
           /\ createOpts'.temperature10 = 8 /\ createOpts'.topK = 3
           /\ createOpts'.role = "system"
      /\ (CallStep /\ currentSession # NoSession) =>
           /\ ~CreateIssued
           /\ nextId' = nextId
           /\ currentSession' = currentSession
           /\ \A t \in TaskIds : Started(t) => tasks'[t].sess = currentSession
    ]_vars

\* C1 witness: a message was started on the one session there is, without a create
C1_Witness ==
  /\ ev.op = "msg" /\ ev.result = "pending"
  /\ nextId = 1 /\ currentSession = 1
  /\ \E t \in TaskIds : tasks[t].pc = "prompt" /\ tasks[t].sess = 1
  /\ \A t \in TaskIds : tasks[t].pc # "create"

\* C2: a call that finds the held session at inputUsage / inputQuota >= 0.90
\* calls clone() on it, and when the clone arrives it becomes the held session
\* and the old one is destroyed; below 0.90 the session is kept and neither
\* clone() nor destroy() is called.
C2_RefreshAtNinety ==
  [][ /\ (CallStep /\ currentSession # NoSession) =>
           IF AtNinetyPercent(currentSession)
             THEN CloneIssued(currentSession)
             ELSE /\ \A s \in Sessions : ~CloneIssued(s)
                  /\ currentSession' = currentSession
                  /\ destroyed' = destroyed
                  /\ ev'.destroys = 0
      /\ ev'.op = "cloneResolved" =>
           \E t \in TaskIds :
             /\ tasks[t].pc = "clone"
             /\ AtNinetyPercent(tasks[t].sess)
             /\ currentSession' = nextId + 1
             /\ nextId' = nextId + 1
             /\ tasks[t].sess \in destroyed' \ destroyed
    ]_vars

\* C2 witness: a session at exactly 90% has been replaced by its clone
C2_Witness ==
  /\ ev.op = "cloneResolved"
  /\ currentSession = nextId
  /\ destroyed # {}
  /\ usage[currentSession] * 10 = 9 * InputQuota

C4_PromptBelowThreshold ==
  [][ \A t \in TaskIds :
        (tasks[t].pc # "prompt" /\ tasks'[t].pc = "prompt")
          => usage'[tasks'[t].sess] * 10 < 9 * InputQuota
    ]_vars

\* C5: destroySession with a session held calls destroy() on it once and
\* clears the reference; with none held it changes nothing; either way no
\* session is held afterwards.
C5_DestroyIdempotent ==
  [][ ev'.op = "destroySession" =>
        /\ currentSession' = NoSession
        /\ IF currentSession # NoSession
             THEN ev'.destroys = 1 /\ destroyed' = destroyed \cup {currentSession}
             ELSE ev'.destroys = 0 /\ destroyed' = destroyed
        /\ UNCHANGED <<nextId, tasks, createOpts>>
        /\ \A s \in Sessions \ {currentSession} : usage'[s] = usage[s]
    ]_vars

\* C5 witness: destroySession has destroyed the held session
C5_Witness ==
  /\ ev.op = "destroySession" /\ ev.destroys = 1
  /\ currentSession = NoSession
  /\ destroyed # {}

Quiet == \A t \in TaskIds : tasks[t].pc = "idle"
InitSettled == \A c \in Components : comps[c].init \in {"none", "done"}
NoneAlive == \A c \in Components : comps[c].life # "alive"
SomeDestroyed == \E c \in Components : comps[c].life = "destroyed"

\* C6: once ngOnDestroy has run and nothing of the component is still in
\* flight, no session is live (created and not destroyed).
C6_NoLiveSessionAfterDestroy ==
  (SomeDestroyed /\ NoneAlive /\ Quiet /\ InitSettled) => LiveSessions = {}

\* C7: clearChat destroys the held session when it is called, while the
\* DELETE is still unanswered, and the answer changes nothing about it; a
\* message sent after a clear never finds a session held that carries
\* conversation from before that clear (a session that had been prompted
\* when the chat was cleared, or a clone that kept its conversation).
C7_ClearDestroysSession ==
  [][ /\ ev'.op = "clearChat" =>
           /\ currentSession' = NoSession
           /\ currentSession # NoSession =>
                (currentSession \in destroyed' /\ ev'.destroys = 1)
           /\ deletePending'
      /\ ev'.op = "deleteAnswered" =>
           (currentSession' = currentSession /\ destroyed' = destroyed)
      /\ ev'.op = "msg" => currentSession \notin stale
    ]_vars

\* C8: a warmupSession call always settles as resolved, whatever failed
\* inside it; ngOnInit then finishes and requests the history when the user is
\* authenticated; a message sent right after a failed warm-up runs
\* ensureSession again (create, clone or the held session).
C8_WarmupNeverRejects ==
  [][ /\ \A t \in TaskIds :
           (tasks[t].kind = "warm" /\ tasks'[t].pc = "idle") =>
             /\ ev'.result = "resolved"
             /\ LET c == tasks[t].owner IN
                  c # 0 =>
                    /\ comps'[c].init = "done"
                    /\ comps[c].life = "alive" =>
                         /\ comps'[c].history =
                              (IF isAuthenticated THEN "pending" ELSE "skipped")
                         /\ comps'[c].chromeAiAvailable
      /\ (ev.op \in {"createRejected", "cloneRejected"} /\ ev.result = "resolved"
            /\ ev'.op = "msg") =>
           /\ ev'.result = "pending"
           /\ \E t \in TaskIds :
                Started(t) /\ tasks'[t].pc \in {"create", "clone", "prompt"}
    ]_vars

\* C8 witness: the warm-up's create was rejected, ngOnInit finished and asked
\* for the history
C8_Witness ==
  /\ ev.op = "createRejected" /\ ev.result = "resolved"
  /\ \E c \in Components :
       /\ comps[c].life = "alive" /\ comps[c].init = "done"
       /\ comps[c].history = "pending"
       /\ comps[c].chromeAiAvailable

ProtectedUrls == {Url(<<"dashboard">>), Url(<<"documents">>), Url(<<"documents", "create">>),
                  Url(<<"documents", "edit", "42">>), Url(<<"documents", "42">>),
                  Url(<<"services">>), Url(<<"chat">>), Url(<<"profile">>)}
PublicPaths == {<<"auth", "login">>, <<"auth", "register">>, <<"auth", "forgot-password">>,
                <<"auth", "reset-password", "tok">>}

\* C9: a navigation to a route protected by authGuard is activated exactly
\* when isAuthenticated() is true as the guard runs; otherwise it is denied
\* and /auth/login?returnUrl=<the requested URL> is requested.
C9_AuthGuard ==
  [][ (ev'.op = "navigation" /\ navReq # <<>> /\ navReq[1] \in ProtectedUrls) =>
        IF isAuthenticated
          THEN location' = navReq /\ navReq' = <<>> /\ ev'.result = "activated"
          ELSE /\ location' = location
               /\ ev'.result = "denied"
               /\ navReq' = <<[path |-> <<"auth", "login">>, query |-> <<navReq[1]>>]>>
    ]_vars

\* C9 witness: /documents/42 was denied and login asked for with that returnUrl
C9_Witness ==
  /\ ev.op = "navigation" /\ ev.result = "denied"
  /\ ~isAuthenticated
  /\ navReq = <<[path |-> <<"auth", "login">>,
                 query |-> <<Url(<<"documents", "42">>)>>]>>

\* C10: a navigation to a route protected by publicGuard is activated exactly
\* when the user is not authenticated; otherwise it is denied and /dashboard
\* is requested.
C10_PublicGuard ==
  [][ (ev'.op = "navigation" /\ navReq # <<>> /\ navReq[1].path \in PublicPaths) =>
        IF ~isAuthenticated
          THEN location' = navReq /\ navReq' = <<>> /\ ev'.result = "activated"
          ELSE /\ location' = location
               /\ ev'.result = "denied"
               /\ navReq' = <<Url(<<"dashboard">>)>>
    ]_vars

\* C10 witness: an authenticated user was turned away from a public route
C10_Witness ==
  /\ ev.op = "navigation" /\ ev.result = "denied"
  /\ isAuthenticated
  /\ navReq = <<Url(<<"dashboard">>)>>

\* where the login page at url promises to go after a login
ReturnTarget(url) ==
  IF url.query # <<>> THEN url.query ELSE <<Url(<<"dashboard">>)>>

\* the answer belongs to the LoginComponent on screen and was a success
OwnLoginSucceeded ==
  /\ ev'.op = "loginAnswered" /\ ev'.result = "next"
  /\ ActiveComponent = "LoginComponent"
  /\ loginC.isLoading /\ ~loginC'.isLoading

\* C11: when the login page is at /auth/login?returnUrl=X and the login
\* succeeds, the navigation that follows goes to X (to /dashboard without a
\* returnUrl), and that navigation is activated, not denied by a guard.
C11_ReturnUrlPreserved ==
  [][ /\ OwnLoginSucceeded => ReturnTarget(location[1]) \in loginTimers'
      /\ (ev.op = "loginTimer" /\ ev'.op = "navigation") =>
           (ev'.result = "activated" /\ location' = navReq)
    ]_vars

\* C12: the router runs no navigation (and so no guard) while checkAuthStatus
\* is pending; checkAuthStatus always resolves, with isAuthenticated true and
\* currentUser set exactly when GET /auth/me answered 200; the first
\* navigation of a user whose cookie is valid, to a protected URL, is activated.
C12_AuthBeforeStart ==
  [][ /\ ev'.op = "navigation" => authCheck = "settled"
      /\ ev'.op = "checkAuthStatus" =>
           /\ ev'.result = "resolved"
           /\ authCheck' = "settled"
           /\ IF ev'.status = 200
                THEN isAuthenticated' /\ currentUser' = "user"
                ELSE ~isAuthenticated' /\ currentUser' = "null"
      /\ (ev'.op = "navigation" /\ location = <<>> /\ currentUser = "user"
            /\ navReq[1] \in ProtectedUrls) =>
           (ev'.result = "activated" /\ location' = navReq)
    ]_vars

\* C12 witness: /auth/me answered 200 and /documents/42, opened directly, is on screen
C12_Witness ==
  /\ authCheck = "settled" /\ isAuthenticated /\ currentUser = "user"
  /\ ev.op = "navigation" /\ ev.result = "activated"
  /\ location = <<Url(<<"documents", "42">>)>>

\* C13: when POST /auth/logout is answered, with success or with any failure,
\* isAuthenticated is false, currentUser is null and the subscriber's next
\* runs, never its error.
C13_LogoutClearsState ==
  [][ ev'.op = "logoutAnswered" =>
        /\ ~isAuthenticated'
        /\ currentUser' = "null"
        /\ ev'.result = "next"
    ]_vars

\* C13 witness: the backend failed the logout and the state is cleared
C13_Witness ==
  /\ ev.op = "logoutAnswered" /\ ev.status = 500 /\ ev.result = "next"
  /\ ~isAuthenticated /\ currentUser = "null"

\* C14: when an answer has status 401, the navigation asked for ends on the
\* auth/login route (LoginComponent).
C14_UnauthorizedToLogin ==
  [][ ev'.status = 401 =>
        /\ navReq' # <<>>
        /\ Recognize(navReq'[1]).route.component = "LoginComponent"
    ]_vars

C16_StepIndexInRange ==
  wizard.activeStepIndex \in 0..3

====
